---- MODULE Spec2Model ----
(***************************************************************************)
(* Model of LinkbotJS' firmware update checker (src/src/jsx/firmware.jsx): *)
(* filename pairing, local version enumeration, latest-version resolution  *)
(* and the setTimeout/XMLHttpRequest driven update-check loop; of the      *)
(* public Linkbots object (src/src/jsx/main.jsx) and of the robot store    *)
(* (src/src/jsx/storage.jsx).                                              *)
(*                                                                         *)
(* JavaScript strings are sequences of one-character strings, so that      *)
(* lastIndexOf, slice, split and concatenation are computed, not assumed.  *)
(***************************************************************************)
EXTENDS Integers, Sequences, FiniteSets, TLC

VARIABLES
    files,      \* asyncBaroboBridge.listFirmwareFiles(): the local listing
    config,     \* the persisted key-value store behind config.get/config.set
    appVersion, \* what asyncBaroboBridge.linkbotLabsVersion() returns
    now,        \* Date.now(), in ms
    timers,     \* armed setTimeout(checkForFirmwareUpdate, delay) timers
    requests,   \* XMLHttpRequests for /firmware/metadata.json in flight
    downloads,  \* saveFirmwareFile requests the bridge has not finished
    last,       \* log of the handler that ran last
    input,      \* argument of the pure function under check
    out,        \* what the function under check returned or threw
    page,       \* main.jsx: window.Linkbots and what its methods touched
    db,         \* storage.jsx: the rows of the robots table
    cb          \* storage.jsx: the last store call and its callback invocations

vars == <<files, config, appVersion, now, timers, requests, downloads,
          last, input, out, page, db, cb>>

----------------------------------------------------------------------------
(* JavaScript values *)

\* null and undefined, as sequences no string of characters equals
Null == <<"#null">>
Undefined == <<"#undefined">>

\* JavaScript's empty string
EmptyString == <<>>

DigitChars == <<"0", "1", "2", "3", "4", "5", "6", "7", "8", "9">>

IsDigit(c) == \E i \in 1..Len(DigitChars) : DigitChars[i] = c

DigitValue(c) == (CHOOSE i \in 1..Len(DigitChars) : DigitChars[i] = c) - 1

IsDigits(s) == Len(s) > 0 /\ \A i \in 1..Len(s) : IsDigit(s[i])

RECURSIVE ParseNat(_)
ParseNat(s) ==
    IF Len(s) = 0 THEN 0
    ELSE 10 * ParseNat(SubSeq(s, 1, Len(s) - 1)) + DigitValue(s[Len(s)])

RECURSIVE FormatNat(_)
FormatNat(n) ==
    IF n < 10 THEN <<DigitChars[n + 1]>>
    ELSE FormatNat(n \div 10) \o <<DigitChars[(n % 10) + 1]>>

\* String.prototype.lastIndexOf with a one-character needle: 0-based, -1 if absent
lastIndexOf(a, c) ==
    LET hits == {i \in 1..Len(a) : a[i] = c}
    IN  IF hits = {} THEN -1
        ELSE (CHOOSE i \in hits : \A j \in hits : j <= i) - 1

\* String.prototype.slice(from, to) with 0 <= from <= to <= length
slice(a, from, to) == SubSeq(a, from + 1, to)

\* String.prototype.split with a one-character separator
RECURSIVE split(_, _)
split(s, sep) ==
    LET hits == {i \in 1..Len(s) : s[i] = sep}
    IN  IF hits = {} THEN <<s>>
        ELSE LET i == CHOOSE k \in hits : \A j \in hits : k <= j
             IN  <<SubSeq(s, 1, i - 1)>> \o split(SubSeq(s, i + 1, Len(s)), sep)

DotHex == <<".", "h", "e", "x">>
DotEeprom == <<".", "e", "e", "p", "r", "o", "m">>

----------------------------------------------------------------------------
(* version.jsx: Version *)

Version(major, minor, patch) == [major |-> major, minor |-> minor, patch |-> patch]

\* "no version": what a failed parse yields; filter(Boolean) drops it
NoVersion == Version(-1, -1, -1)

\* Version.fromString: "<major>.<minor>.<patch>" with an optional leading v
fromString(s) ==
    IF s = Null \/ s = Undefined THEN NoVersion
    ELSE LET t == IF Len(s) > 0 /\ s[1] = "v" THEN Tail(s) ELSE s
             parts == split(t, ".")
         IN  IF Len(parts) = 3 /\ \A i \in 1..3 : IsDigits(parts[i])
             THEN Version(ParseNat(parts[1]), ParseNat(parts[2]), ParseNat(parts[3]))
             ELSE NoVersion

\* new Version(tuple), as responseHandler calls it with the split string
newVersion(tuple) ==
    IF Len(tuple) = 3 /\ \A i \in 1..3 : IsDigits(tuple[i])
    THEN Version(ParseNat(tuple[1]), ParseNat(tuple[2]), ParseNat(tuple[3]))
    ELSE NoVersion

\* the (major, minor, patch) order
VersionLeq(a, b) ==
    \/ a.major < b.major
    \/ a.major = b.major /\ a.minor < b.minor
    \/ a.major = b.major /\ a.minor = b.minor /\ a.patch <= b.patch

\* Version.max
VersionMax(a, b) == IF VersionLeq(a, b) THEN b ELSE a

\* Version.prototype.eq; no version equals nothing
VersionEq(a, b) ==
    a # NoVersion /\ b # NoVersion
    /\ a.major = b.major /\ a.minor = b.minor /\ a.patch = b.patch

\* Version.prototype.toString, used by 'v' + version + '.hex'
VersionToString(v) ==
    FormatNat(v.major) \o <<".">> \o FormatNat(v.minor) \o <<".">> \o FormatNat(v.patch)

----------------------------------------------------------------------------
(* firmware.jsx: filename pairing *)

\* faulty variant: a leading '.' splits too (i >= 0)
splitFilenameAtLeadingDot(a) ==
    LET i == lastIndexOf(a, ".")
    IN  IF i >= 0
        THEN [stem |-> slice(a, 0, i), extension |-> slice(a, i, Len(a))]
        ELSE [stem |-> slice(a, 0, Len(a)), extension |-> Null]

\* { stem, extension }: split at the last '.', unless it is at index 0 or absent
splitFilename(a) ==
    LET i == lastIndexOf(a, ".")
    IN  IF i > 0
        THEN [stem |-> slice(a, 0, i), extension |-> slice(a, i, Len(a))]
        ELSE [stem |-> slice(a, 0, Len(a)), extension |-> Null]

\* String(!file.stem): the key that `!file.stem in fws` looks up
NotStemKey(stem) ==
    IF stem = EmptyString THEN <<"t", "r", "u", "e">>
    ELSE <<"f", "a", "l", "s", "e">>

\* a | b on the two-bit roll-call values
BitOr(a, b) ==
    (IF a % 2 = 1 \/ b % 2 = 1 THEN 1 ELSE 0)
    + (IF a >= 2 \/ b >= 2 THEN 2 ELSE 0)

\* fws[stem] read as an int32: undefined reads as 0
FwsGet(fws, stem) == IF stem \in DOMAIN fws THEN fws[stem] ELSE 0

FwsPut(fws, stem, bits) ==
    [k \in DOMAIN fws \cup {stem} |-> IF k = stem THEN bits ELSE fws[k]]

\* the body of the forEach callback, on the roll call so far;
\* acc.fws is the object, acc.keys its own keys in insertion order
RollCall(acc, file) ==
    LET isNew == file.stem \notin DOMAIN acc.fws
        reset == IF NotStemKey(file.stem) \in DOMAIN acc.fws
                 THEN FwsPut(acc.fws, file.stem, 0)
                 ELSE acc.fws
        hex == BitOr(FwsGet(reset, file.stem),
                     IF file.extension = DotHex THEN 1 ELSE 0)
        both == BitOr(hex, IF file.extension = DotEeprom THEN 2 ELSE 0)
    IN  [fws |-> FwsPut(reset, file.stem, both),
         keys |-> IF isNew THEN Append(acc.keys, file.stem) ELSE acc.keys]

RECURSIVE RollCallAll(_, _)
RollCallAll(acc, splitFiles) ==
    IF splitFiles = <<>> THEN acc
    ELSE RollCallAll(RollCall(acc, Head(splitFiles)), Tail(splitFiles))

RECURSIVE SelectKeys(_, _)
SelectKeys(keys, fws) ==
    IF keys = <<>> THEN <<>>
    ELSE (IF fws[Head(keys)] = 3 THEN <<Head(keys)>> ELSE <<>>)
         \o SelectKeys(Tail(keys), fws)

\* the stems whose roll call is 3, in for-in order (insertion order: the names
\* used here are neither array indices nor properties of Object.prototype)
firmwareFileStems(firmwareFiles) ==
    LET splitFiles == [i \in 1..Len(firmwareFiles) |-> splitFilename(firmwareFiles[i])]
        acc == RollCallAll([fws |-> <<>>, keys |-> <<>>], splitFiles)
    IN  SelectKeys(acc.keys, acc.fws)

----------------------------------------------------------------------------
(* config.jsx: the persisted key-value store *)

\* config.get(key): the stored value, or undefined
configGet(cfg, key) == IF key \in DOMAIN cfg THEN cfg[key] ELSE Undefined

\* the store after config.set(key, value); ok is what set returns
configSet(cfg, key, value, ok) ==
    IF ok
    THEN [k \in DOMAIN cfg \cup {key} |-> IF k = key THEN value ELSE cfg[k]]
    ELSE cfg

----------------------------------------------------------------------------
(* firmware.jsx: local version enumeration and latest-version resolution *)

\* a function's outcome: a returned value or a thrown exception
Return(v) == [threw |-> FALSE, value |-> v]
Throw(e) == [threw |-> TRUE, value |-> e]

\* faulty variant: the prefix is matched without regard to case (/^v/i)
dropVAnyCase(s) ==
    IF Len(s) > 0 /\ s[1] \in {"v", "V"} THEN slice(s, 1, Len(s)) ELSE Null

\* strings with a 'v' prefix lose it, the others become null
dropV(s) == IF Len(s) > 0 /\ s[1] = "v" THEN slice(s, 1, Len(s)) ELSE Null

\* Array.prototype.reduce(Version.max) without an initial value
RECURSIVE reduceMax(_, _)
reduceMax(acc, rest) ==
    IF rest = <<>> THEN acc
    ELSE reduceMax(VersionMax(acc, Head(rest)), Tail(rest))

reduceVersionMax(list) ==
    IF list = <<>> THEN Throw("TypeError")
    ELSE Return(reduceMax(Head(list), Tail(list)))

\* the Versions that have a complete pair of firmware files
localVersionList(listing) ==
    LET stems == firmwareFileStems(listing)
        parsed == [i \in 1..Len(stems) |-> fromString(dropV(stems[i]))]
    IN  SelectSeq(parsed, LAMBDA v : v # NoVersion)

\* true if version v is in stock
localVersionExists(listing, v) ==
    LET list == localVersionList(listing)
    IN  \E i \in 1..Len(list) : VersionEq(list[i], v)

latestVersion(listing, cfg) ==
    LET lv == reduceVersionMax(localVersionList(listing))
        lrfv == fromString(configGet(cfg, "latestRemoteFirmwareVersion"))
    IN  IF lv.threw THEN lv
        ELSE IF localVersionExists(listing, lrfv) THEN Return(lrfv)
        ELSE lv

\* startUpdater: the firmwareUpdate calls it makes, or what latestVersion threw
startUpdater(listing, cfg) ==
    LET version == latestVersion(listing, cfg)
    IN  IF version.threw THEN version
        ELSE LET name == IF version.value = NoVersion
                         THEN <<"v", "undefined">>
                         ELSE <<"v">> \o VersionToString(version.value)
             IN  Return(<<[version |-> version.value,
                           hexFile |-> name \o DotHex,
                           eepromFile |-> name \o DotEeprom]>>)

----------------------------------------------------------------------------
(* The filenames and persisted values the checks draw from *)

FalseStem == <<"f", "a", "l", "s", "e">>
TrueStem == <<"t", "r", "u", "e">>
V190 == <<"v", "1", ".", "9", ".", "0">>
V1100 == <<"v", "1", ".", "1", "0", ".", "0">>
V0190 == <<"v", "0", "1", ".", "9", ".", "0">>
VV190 == <<"v", "v", "1", ".", "9", ".", "0">>
UpperV200 == <<"V", "2", ".", "0", ".", "0">>

\* names of the bridge's firmware directory
LocalFileNames ==
    {V190 \o DotHex, V190 \o DotEeprom, V1100 \o DotHex, V1100 \o DotEeprom,
     VV190 \o DotHex, VV190 \o DotEeprom, UpperV200 \o DotHex,
     UpperV200 \o DotEeprom, FalseStem \o DotHex}

\* arbitrary names for firmwareFileStems
StemFileNames ==
    {<<"a">>, <<"d">> \o DotHex, <<"d">> \o DotEeprom, FalseStem \o DotHex,
     FalseStem \o DotEeprom, TrueStem \o DotHex, DotHex, EmptyString}

\* names for splitFilename alone
SplitNames ==
    {<<"a", ".", "b", ".", "c">>, <<"a", ".">>, <<"a">>, <<".", "a">>,
     <<".">>, <<".", ".">>, <<"a", ".", ".", "b">>, EmptyString}

\* persisted latestRemoteFirmwareVersion values; Undefined is an absent key
RemoteValues ==
    {Undefined, Tail(V190), Tail(V1100), <<"3", ".", "0", ".", "0">>, <<"x">>}

\* longest listing handed to firmwareFileStems
MaxStemFiles == 3

\* most files in the firmware directory
MaxLocalFiles == 4

\* all sequences over S of length at most n
SeqsUpTo(S, n) == UNION {[1..k -> S] : k \in 0..n}

\* a directory listing names no file twice
Listings(S, n) ==
    {l \in SeqsUpTo(S, n) : \A i, j \in 1..Len(l) : l[i] = l[j] => i = j}

ConfigWith(lrfv) ==
    IF lrfv = Undefined THEN <<>>
    ELSE configSet(<<>>, "latestRemoteFirmwareVersion", lrfv, TRUE)

----------------------------------------------------------------------------
(* Calls of the pure functions *)

NoCall == [op |-> "none", threw |-> FALSE, value |-> <<>>]
NoHandler == [op |-> "none"]

\* the update loop is not running in the function checks
\* main.jsx and storage.jsx are not loaded in the checks of firmware.jsx
Unused == <<>>
ElsewhereIdle ==
    /\ page = Unused
    /\ db = Unused
    /\ cb = Unused
ElsewhereUnchanged == UNCHANGED <<page, db, cb>>

LoopIdle ==
    /\ ElsewhereIdle
    /\ appVersion = NoVersion
    /\ now = 0
    /\ timers = <<>>
    /\ requests = 0
    /\ downloads = <<>>
    /\ last = NoHandler

LoopUnchanged ==
    /\ UNCHANGED <<appVersion, now, timers, requests, downloads, last>>
    /\ ElsewhereUnchanged

InitStems ==
    /\ input \in SeqsUpTo(StemFileNames, MaxStemFiles) \cup {<<n>> : n \in SplitNames}
    /\ out = NoCall
    /\ files = <<>>
    /\ config = <<>>
    /\ LoopIdle

CallSplitFilename ==
    /\ \E i \in 1..Len(input) :
          out' = [op |-> "splitFilename", threw |-> FALSE,
                  value |-> <<input[i], splitFilename(input[i])>>]
    /\ UNCHANGED <<input, files, config>>
    /\ LoopUnchanged

CallFirmwareFileStems ==
    /\ out' = [op |-> "firmwareFileStems", threw |-> FALSE,
               value |-> firmwareFileStems(input)]
    /\ UNCHANGED <<input, files, config>>
    /\ LoopUnchanged

NextStems == CallSplitFilename \/ CallFirmwareFileStems

SpecStems == InitStems /\ [][NextStems]_vars

InitLatest ==
    /\ files \in Listings(LocalFileNames, MaxLocalFiles)
    /\ \E lrfv \in RemoteValues : config = ConfigWith(lrfv)
    /\ input = <<>>
    /\ out = NoCall
    /\ LoopIdle

CallLocalVersionList ==
    /\ out' = [op |-> "localVersionList", threw |-> FALSE,
               value |-> localVersionList(files)]
    /\ UNCHANGED <<input, files, config>>
    /\ LoopUnchanged

CallLatestVersion ==
    /\ out' = [op |-> "latestVersion"] @@ latestVersion(files, config)
    /\ UNCHANGED <<input, files, config>>
    /\ LoopUnchanged

CallStartUpdater ==
    /\ out' = [op |-> "startUpdater"] @@ startUpdater(files, config)
    /\ UNCHANGED <<input, files, config>>
    /\ LoopUnchanged

NextLatest == CallLocalVersionList \/ CallLatestVersion \/ CallStartUpdater

SpecLatest == InitLatest /\ [][NextLatest]_vars

----------------------------------------------------------------------------
(* firmware.jsx: the update-check loop *)

CHECK_INTERVAL == 60000

\* the delay errorResponseHandler retries with
RETRY_DELAY == 10000

\* Date.now() at the first page load
StartNow == 100000

\* the clock advances in steps of TickMs, MaxTicks times at most
TickMs == 10000
MaxTicks == 7

\* unfinished saveFirmwareFile requests, at most
MaxDownloads == 4

\* the running application's version and its key in the metadata document
AppVersions == {NoVersion, Version(1, 0, 0)}
AppKey == <<"1", ".", "0", ".", "0">>
OtherKey == <<"2", ".", "0", ".", "0">>

\* responseText that JSON.parse rejects
NotJson == [valid |-> FALSE, firmware |-> <<>>, md5sums |-> <<>>]

Md5Sums(hex, eeprom) == [hex |-> hex, eeprom |-> eeprom]

\* a parsed metadata.json: 'linkbotlabs-firmware' and 'firmware-md5sums'
Metadata(firmware, md5sums) ==
    [valid |-> TRUE, firmware |-> firmware, md5sums |-> md5sums]

AllSums ==
    (Tail(V190) :> Md5Sums("md5 of v1.9.0.hex", "md5 of v1.9.0.eeprom"))
    @@ (Tail(V1100) :> Md5Sums("md5 of v1.10.0.hex", "md5 of v1.10.0.eeprom"))

\* the response bodies the server may send
Bodies ==
    {NotJson,
     Metadata(AppKey :> <<Tail(V1100), Tail(V190)>>, AllSums),
     Metadata(AppKey :> <<Tail(V190)>>, AllSums),
     Metadata(OtherKey :> <<Tail(V190)>>, AllSums),
     Metadata(AppKey :> <<Tail(V1100)>>,
              Tail(V190) :> Md5Sums("md5 of v1.9.0.hex", "md5 of v1.9.0.eeprom"))}

\* HTTP statuses of a completed request; the load event fires for all of them
Statuses == {200, 404}

NoResponse == [status |-> 0, body |-> NotJson]

\* what a handler did: the timers it armed, the config keys it set, the
\* downloads it requested, and the exception that ended it, if any
Log(op, response, threw, armed, writes, saved) ==
    [op |-> op, response |-> response, threw |-> threw,
     armed |-> armed, writes |-> writes, saved |-> saved]

\* the state a handler works on and its log
Effect(cfg, tms, dls, log) ==
    [config |-> cfg, timers |-> tms, downloads |-> dls, log |-> log]

Timer(armedAt, delay) == [armedAt |-> armedAt, delay |-> delay]

FirmwareUrl(version, extension) ==
    <<"http://", "location.host", "/firmware/">> \o <<"v">> \o version \o extension

\* faulty variant: nextCheck is persisted as Date.now(), the delay forgotten
scheduleWithoutDelay(e, t, delay, ok) ==
    Effect(configSet(e.config, "nextCheck", t, ok),
           Append(e.timers, Timer(t, delay)),
           e.downloads,
           [e.log EXCEPT !.armed = Append(@, delay),
                         !.writes = Append(@, <<"nextCheck", ok>>)])

\* faulty variant: a failed write of nextCheck ends the function
scheduleUnlessWriteFails(e, t, delay, ok) ==
    IF ok
    THEN Effect(configSet(e.config, "nextCheck", t + delay, ok),
                Append(e.timers, Timer(t, delay)),
                e.downloads,
                [e.log EXCEPT !.armed = Append(@, delay),
                              !.writes = Append(@, <<"nextCheck", ok>>)])
    ELSE [e EXCEPT !.log.writes = Append(@, <<"nextCheck", ok>>)]

\* config.set('nextCheck', Date.now() + delay), then setTimeout(.., delay)
scheduleFirmwareUpdateCheck(e, t, delay, ok) ==
    Effect(configSet(e.config, "nextCheck", t + delay, ok),
           Append(e.timers, Timer(t, delay)),
           e.downloads,
           [e.log EXCEPT !.armed = Append(@, delay),
                         !.writes = Append(@, <<"nextCheck", ok>>)])

\* faulty variant: the error path waits the full interval
errorResponseHandlerFullInterval(e, t, ok) ==
    scheduleFirmwareUpdateCheck(e, t, CHECK_INTERVAL, ok)

\* the error listener: re-try the request after 10 seconds
errorResponseHandler(e, t, ok) ==
    scheduleFirmwareUpdateCheck(e, t, RETRY_DELAY, ok)

\* faulty variant: the next check is scheduled only when nothing is downloaded
responseHandlerTailRearmsInElse(e, json, remote, listing, t, okNext) ==
    LET hasSums == remote \in DOMAIN json.md5sums
        v == newVersion(split(remote, "."))
        wanted == ~localVersionExists(listing, v)
        hexSave == [url |-> FirmwareUrl(remote, DotHex),
                    md5sum |-> json.md5sums[remote].hex]
        eepromSave == [url |-> FirmwareUrl(remote, DotEeprom),
                       md5sum |-> json.md5sums[remote].eeprom]
    IN  IF ~hasSums
        THEN [e EXCEPT !.log.threw = "TypeError"]
        ELSE IF wanted
        THEN Effect(e.config, e.timers,
                    e.downloads \o <<hexSave, eepromSave>>,
                    [e.log EXCEPT !.saved = @ \o <<hexSave, eepromSave>>])
        ELSE scheduleFirmwareUpdateCheck(e, t, CHECK_INTERVAL, okNext)

\* faulty variant: the two checksums change places
responseHandlerTailSwapsSums(e, json, remote, listing, t, okNext) ==
    LET hasSums == remote \in DOMAIN json.md5sums
        v == newVersion(split(remote, "."))
        wanted == ~localVersionExists(listing, v)
        hexSave == [url |-> FirmwareUrl(remote, DotHex),
                    md5sum |-> json.md5sums[remote].eeprom]
        eepromSave == [url |-> FirmwareUrl(remote, DotEeprom),
                       md5sum |-> json.md5sums[remote].hex]
        saved == IF wanted
                 THEN Effect(e.config, e.timers,
                             e.downloads \o <<hexSave, eepromSave>>,
                             [e.log EXCEPT !.saved = @ \o <<hexSave, eepromSave>>])
                 ELSE e
    IN  IF ~hasSums
        THEN [e EXCEPT !.log.threw = "TypeError"]
        ELSE scheduleFirmwareUpdateCheck(saved, t, CHECK_INTERVAL, okNext)

\* the handler's part after config.set('latestRemoteFirmwareVersion', ..)
responseHandlerTail(e, json, remote, listing, t, okNext) ==
    LET hasSums == remote \in DOMAIN json.md5sums
        v == newVersion(split(remote, "."))
        wanted == ~localVersionExists(listing, v)
        hexSave == [url |-> FirmwareUrl(remote, DotHex),
                    md5sum |-> json.md5sums[remote].hex]
        eepromSave == [url |-> FirmwareUrl(remote, DotEeprom),
                       md5sum |-> json.md5sums[remote].eeprom]
        saved == IF wanted
                 THEN Effect(e.config, e.timers,
                             e.downloads \o <<hexSave, eepromSave>>,
                             [e.log EXCEPT !.saved = @ \o <<hexSave, eepromSave>>])
                 ELSE e
    IN  IF ~hasSums
        THEN [e EXCEPT !.log.threw = "TypeError"]
        ELSE scheduleFirmwareUpdateCheck(saved, t, CHECK_INTERVAL, okNext)

\* faulty variant: without a running version the handler arms a retry
responseHandlerRetriesWithoutVersion(e, response, version, listing, t, okRemote, okNext) ==
    LET json == response.body
        key == VersionToString(version)
    IN  IF ~json.valid THEN [e EXCEPT !.log.threw = "SyntaxError"]
        ELSE IF version = NoVersion
             THEN scheduleFirmwareUpdateCheck(e, t, RETRY_DELAY, okNext)
        ELSE IF key \notin DOMAIN json.firmware
             THEN [e EXCEPT !.log.threw = "TypeError"]
        ELSE LET remote == json.firmware[key][1]
                 set == [e EXCEPT !.config = configSet(@, "latestRemoteFirmwareVersion",
                                                        remote, okRemote),
                                  !.log.writes = Append(@, <<"latestRemoteFirmwareVersion",
                                                             okRemote>>)]
             IN  responseHandlerTail(set, json, remote, listing, t, okNext)

\* the load listener of the metadata request; an uncaught exception ends the
\* handler and keeps what it did before
responseHandler(e, response, version, listing, t, okRemote, okNext) ==
    LET json == response.body
        key == VersionToString(version)
    IN  IF ~json.valid THEN [e EXCEPT !.log.threw = "SyntaxError"]
        ELSE IF version = NoVersion THEN e
        ELSE IF key \notin DOMAIN json.firmware
             THEN [e EXCEPT !.log.threw = "TypeError"]
        ELSE LET remote == json.firmware[key][1]
                 set == [e EXCEPT !.config = configSet(@, "latestRemoteFirmwareVersion",
                                                        remote, okRemote),
                                  !.log.writes = Append(@, <<"latestRemoteFirmwareVersion",
                                                             okRemote>>)]
             IN  responseHandlerTail(set, json, remote, listing, t, okNext)

\* faulty variant: the bounds are applied in the wrong order
clampMinFirst(x, a, b) ==
    LET upper == IF x < a THEN x ELSE a
    IN  IF upper > b THEN upper ELSE b

\* Math.min(Math.max(x, a), b)
clamp(x, a, b) ==
    LET lower == IF x > a THEN x ELSE a
    IN  IF lower < b THEN lower ELSE b

\* the module's top-level code, run when the page loads
\* faulty variant: the stored nextCheck is not looked at
moduleInitFullInterval(cfg, t, ok) ==
    scheduleFirmwareUpdateCheck(
        Effect(cfg, <<>>, <<>>, Log("init", NoResponse, "", <<>>, <<>>, <<>>)),
        t, CHECK_INTERVAL, ok)

\* faulty variant: the stored nextCheck is honoured however far ahead it is
moduleInitUnclamped(cfg, t, ok) ==
    LET nextCheck == IF "nextCheck" \in DOMAIN cfg THEN cfg["nextCheck"] ELSE t
        delay == IF nextCheck - t < 0 THEN 0 ELSE nextCheck - t
    IN  scheduleFirmwareUpdateCheck(
            Effect(cfg, <<>>, <<>>, Log("init", NoResponse, "", <<>>, <<>>, <<>>)),
            t, delay, ok)

moduleInit(cfg, t, ok) ==
    LET nextCheck == IF "nextCheck" \in DOMAIN cfg THEN cfg["nextCheck"] ELSE t
        delay == clamp(nextCheck - t, 0, CHECK_INTERVAL)
    IN  scheduleFirmwareUpdateCheck(
            Effect(cfg, <<>>, <<>>, Log("init", NoResponse, "", <<>>, <<>>, <<>>)),
            t, delay, ok)

----------------------------------------------------------------------------
(* The update loop as a state machine *)

\* the firmware directory at the first page load
InitialListings ==
    {<<>>,
     <<V190 \o DotHex, V190 \o DotEeprom>>,
     <<V190 \o DotHex, V190 \o DotEeprom, V1100 \o DotHex>>,
     <<V190 \o DotHex, V190 \o DotEeprom, V1100 \o DotHex, V1100 \o DotEeprom>>,
     <<V0190 \o DotEeprom, V0190 \o DotHex>>,
     <<VV190 \o DotHex, VV190 \o DotEeprom>>,
     <<FalseStem \o DotHex, V190 \o DotHex, V190 \o DotEeprom>>}

\* the store a previous run left behind
InitialConfigs ==
    {<<>>,
     "nextCheck" :> (StartNow - 5000),
     "nextCheck" :> (StartNow + 30000),
     ("nextCheck" :> (StartNow + 600000))
        @@ ("latestRemoteFirmwareVersion" :> Tail(V190))}

Current(op, response) ==
    Effect(config, timers, downloads, Log(op, response, "", <<>>, <<>>, <<>>))

Remove(seq, i) == SubSeq(seq, 1, i - 1) \o SubSeq(seq, i + 1, Len(seq))

FnUnchanged ==
    /\ UNCHANGED <<input, out>>
    /\ ElsewhereUnchanged

\* the state after the module has been loaded
Init ==
    /\ files \in InitialListings
    /\ appVersion \in AppVersions
    /\ now = StartNow
    /\ \E cfg \in InitialConfigs, ok \in BOOLEAN :
          LET e == moduleInit(cfg, now, ok)
          IN  /\ config = e.config
              /\ timers = e.timers
              /\ last = e.log
    /\ requests = 0
    /\ downloads = <<>>
    /\ input = <<>>
    /\ out = NoCall
    /\ ElsewhereIdle

\* time passes
Tick ==
    /\ now + TickMs <= StartNow + MaxTicks * TickMs
    /\ now' = now + TickMs
    /\ UNCHANGED <<files, config, appVersion, timers, requests, downloads, last>>
    /\ FnUnchanged

\* faulty variant: the timer repeats (setInterval) and stays armed when it fires
checkForFirmwareUpdateRepeating ==
    /\ \E i \in 1..Len(timers) : timers[i].armedAt + timers[i].delay <= now
    /\ requests' = requests + 1
    /\ last' = Log("check", NoResponse, "", <<>>, <<>>, <<>>)
    /\ UNCHANGED <<files, config, appVersion, now, timers, downloads>>
    /\ FnUnchanged

\* a due timer fires: checkForFirmwareUpdate sends one GET
checkForFirmwareUpdate ==
    /\ \E i \in 1..Len(timers) :
          /\ timers[i].armedAt + timers[i].delay <= now
          /\ timers' = Remove(timers, i)
    /\ requests' = requests + 1
    /\ last' = Log("check", NoResponse, "", <<>>, <<>>, <<>>)
    /\ UNCHANGED <<files, config, appVersion, now, downloads>>
    /\ FnUnchanged

\* the request's load event
OnLoad ==
    /\ requests > 0
    /\ \E status \in Statuses, body \in Bodies, okRemote, okNext \in BOOLEAN :
          LET response == [status |-> status, body |-> body]
              e == responseHandler(Current("load", response), response,
                                   appVersion, files, now, okRemote, okNext)
          IN  /\ Len(e.downloads) <= MaxDownloads
              /\ config' = e.config
              /\ timers' = e.timers
              /\ downloads' = e.downloads
              /\ last' = e.log
    /\ requests' = requests - 1
    /\ UNCHANGED <<files, appVersion, now>>
    /\ FnUnchanged

\* the request's error event
OnError ==
    /\ requests > 0
    /\ \E ok \in BOOLEAN :
          LET e == errorResponseHandler(Current("error", NoResponse), now, ok)
          IN  /\ config' = e.config
              /\ timers' = e.timers
              /\ downloads' = e.downloads
              /\ last' = e.log
    /\ requests' = requests - 1
    /\ UNCHANGED <<files, appVersion, now>>
    /\ FnUnchanged

\* the bridge, working its requests off in order, finishes a download:
\* the file named by the URL is listed
DownloadDone ==
    /\ downloads # <<>>
    /\ LET url == Head(downloads).url
           name == SubSeq(url, 4, Len(url))
       IN  files' = IF \E k \in 1..Len(files) : files[k] = name
                    THEN files ELSE Append(files, name)
    /\ downloads' = Tail(downloads)
    /\ UNCHANGED <<config, appVersion, now, timers, requests, last>>
    /\ FnUnchanged

\* the bridge gives its oldest download up
DownloadFailed ==
    /\ downloads # <<>>
    /\ downloads' = Tail(downloads)
    /\ UNCHANGED <<files, config, appVersion, now, timers, requests, last>>
    /\ FnUnchanged

Next ==
    \/ Tick
    \/ checkForFirmwareUpdate
    \/ OnLoad
    \/ OnError
    \/ DownloadDone
    \/ DownloadFailed

Spec == Init /\ [][Next]_vars

----------------------------------------------------------------------------
(* The loop with the process stopped and started again *)

MaxRestarts == 1

\* what the stopped process was doing
Phase ==
    IF Len(timers) > 0 THEN "armed"
    ELSE IF requests > 0 THEN "inflight"
    ELSE "idle"

\* the process stops (its timers, requests and downloads are gone, the store
\* and the files stay) and the page loads again at time now; input keeps the
\* phase each stopped process was in
Restart ==
    /\ Len(input) < MaxRestarts
    /\ \E ok \in BOOLEAN :
          LET e == moduleInit(config, now, ok)
          IN  /\ config' = e.config
              /\ timers' = e.timers
              /\ last' = e.log
    /\ requests' = 0
    /\ downloads' = <<>>
    /\ input' = Append(input, Phase)
    /\ UNCHANGED <<files, appVersion, now, out>>
    /\ ElsewhereUnchanged

NextRestart ==
    \/ Tick
    \/ checkForFirmwareUpdate
    \/ OnLoad
    \/ OnError
    \/ Restart

\* the loop started with every version the server can recommend on disk, so
\* that no download is ever started; the top-level code does not read the files
InitRestart ==
    /\ Init
    /\ files = <<V190 \o DotHex, V190 \o DotEeprom, V1100 \o DotHex, V1100 \o DotEeprom>>

SpecRestart == InitRestart /\ [][NextRestart]_vars

----------------------------------------------------------------------------
(* The loop on the mock bridge that stands in when the host supplies none *)

\* the function-valued properties of the mock asyncBaroboBridge
MockMethods ==
    {"listFirmwareFiles", "connectRobot", "disconnectRobot", "getAccelerometer",
     "getFormFactor", "getJointAngles", "getJointSpeeds", "getJointStates",
     "getLedColor", "getVersions", "resetEncoderRevs", "setBuzzerFrequency",
     "setJointSpeeds", "setJointStates", "setLedColor", "move",
     "moveContinuous", "moveTo", "drive", "driveTo", "motorPower", "stop",
     "enableButtonEvents", "enableEncoderEvents", "enableJointEvents",
     "enableAccelerometerEvents", "firmwareUpdate", "sendRobotPing",
     "enumerationConstants"}

\* the bridge methods firmware.jsx calls
FirmwareBridgeCalls ==
    {"listFirmwareFiles", "firmwareUpdate", "saveFirmwareFile", "linkbotLabsVersion"}

\* what the mock's listFirmwareFiles returns
MockListing ==
    <<<<"v", "4", ".", "4", ".", "6">> \o DotEeprom,
      <<"v", "4", ".", "4", ".", "6">> \o DotHex>>

\* responseHandler on a bridge with the given methods: calling a property
\* that is not a function throws a TypeError and ends the handler there
responseHandlerOnBridge(methods, e, response, version, listing, t, okRemote, okNext) ==
    LET whole == responseHandler(e, response, version, listing, t, okRemote, okNext)
    IN  IF ~response.body.valid THEN whole
        ELSE IF "linkbotLabsVersion" \notin methods
             THEN [e EXCEPT !.log.threw = "TypeError"]
        ELSE IF whole.log.saved # <<>> /\ "saveFirmwareFile" \notin methods
             THEN [e EXCEPT !.config = whole.config,
                            !.log.writes = SubSeq(whole.log.writes, 1, 1),
                            !.log.threw = "TypeError"]
        ELSE whole

\* the state after the module has been loaded next to the mock bridge
InitMock ==
    /\ files = MockListing
    /\ appVersion = NoVersion
    /\ now = StartNow
    /\ \E cfg \in InitialConfigs, ok \in BOOLEAN :
          LET e == moduleInit(cfg, now, ok)
          IN  /\ config = e.config
              /\ timers = e.timers
              /\ last = e.log
    /\ requests = 0
    /\ downloads = <<>>
    /\ input = <<>>
    /\ out = NoCall
    /\ ElsewhereIdle

\* the request's load event, the handler running on the mock bridge
OnLoadMock ==
    /\ requests > 0
    /\ \E status \in Statuses, body \in Bodies, okRemote, okNext \in BOOLEAN :
          LET response == [status |-> status, body |-> body]
              e == responseHandlerOnBridge(MockMethods, Current("load", response),
                                           response, appVersion, files, now,
                                           okRemote, okNext)
          IN  /\ config' = e.config
              /\ timers' = e.timers
              /\ downloads' = e.downloads
              /\ last' = e.log
    /\ requests' = requests - 1
    /\ UNCHANGED <<files, appVersion, now>>
    /\ FnUnchanged

NextMock ==
    \/ Tick
    \/ checkForFirmwareUpdate
    \/ OnLoadMock
    \/ OnError

SpecMock == InitMock /\ [][NextMock]_vars

----------------------------------------------------------------------------
(* The module's top-level code alone: every persisted nextCheck, every now *)

\* nextCheck - Date.now() of the stores a page load may find
NextCheckOffsets ==
    {-70000, -5000, -1, 0, 1, 5000, 30000, 59999, 60000, 60001, 130000, 600000}

\* the stores a page load may find: nextCheck absent, past, near, far ahead
LoadConfigs ==
    {<<>>} \cup {"nextCheck" :> (StartNow + d) : d \in NextCheckOffsets}

InitLoad ==
    /\ config \in LoadConfigs
    /\ now = StartNow
    /\ timers = <<>>
    /\ requests = 0
    /\ downloads = <<>>
    /\ last = NoHandler
    /\ appVersion = NoVersion
    /\ files = <<>>
    /\ input = <<>>
    /\ out = NoCall
    /\ ElsewhereIdle

\* the page loads at time now and finds the store config; input keeps that store
LoadModule ==
    /\ last = NoHandler
    /\ \E ok \in BOOLEAN :
          LET e == moduleInit(config, now, ok)
          IN  /\ config' = e.config
              /\ timers' = e.timers
              /\ last' = e.log
    /\ input' = config
    /\ UNCHANGED <<files, appVersion, now, requests, downloads, out>>
    /\ ElsewhereUnchanged

NextLoad == Tick \/ LoadModule

SpecLoad == InitLoad /\ [][NextLoad]_vars

----------------------------------------------------------------------------
(* main.jsx: the public Linkbots object *)

\* the own properties of mod, in the order the module assigns them
LinkbotsProperties ==
    <<"addRobot", "removeRobot", "openSideMenu", "closeSideMenu", "acquire",
      "relinquish", "scan", "startOpen", "setNavigationTitle",
      "addNavigationItem", "setNavigationItems", "addNavigationItems",
      "setPathways", "getPathways", "managerEvents", "uiEvents">>

\* the methods that only hand their arguments to manager.jsx
ManagerMethods ==
    {"addRobot", "removeRobot", "acquire", "relinquish", "setNavigationTitle",
     "addNavigationItem", "setNavigationItems", "addNavigationItems"}

\* most baroboBridge.scan() calls followed
MaxScans == 2

\* asyncBaroboBridge.configuration: absent, or an object with or without pathways
Configuration(present, hasPathways, pathways) ==
    [present |-> present, hasPathways |-> hasPathways, pathways |-> pathways]
NoConfiguration == Configuration(FALSE, FALSE, <<>>)
EmptyConfiguration == Configuration(TRUE, FALSE, <<>>)

\* arguments of setPathways: arrays of pathways, and a single pathway (value
\* then holds just that pathway)
PathwayArguments ==
    {[isArray |-> TRUE, value |-> <<>>],
     [isArray |-> TRUE, value |-> <<"p", "q">>],
     [isArray |-> FALSE, value |-> <<"p">>]}

\* no Linkbots method has been called
NoMethod == "none"

\* what getPathways returns for a configuration
getPathways(configuration) ==
    IF ~configuration.present THEN <<>>
    ELSE IF ~configuration.hasPathways THEN <<>>
    ELSE configuration.pathways

\* the state after main.jsx has run: mod is built, the onload handler is set
InitLinkbots ==
    /\ \E configuration \in {NoConfiguration, EmptyConfiguration} :
          page = [properties |-> LinkbotsProperties,
                  startOpen |-> FALSE,
                  loaded |-> FALSE,
                  method |-> NoMethod,
                  scans |-> 0,
                  manager |-> NoMethod,
                  triggered |-> NoMethod,
                  configuration |-> configuration,
                  returned |-> <<>>]
    /\ db = Unused
    /\ cb = Unused
    /\ files = <<>>
    /\ config = <<>>
    /\ input = <<>>
    /\ out = NoCall
    /\ appVersion = NoVersion
    /\ now = 0
    /\ timers = <<>>
    /\ requests = 0
    /\ downloads = <<>>
    /\ last = NoHandler

PageOnly ==
    UNCHANGED <<files, config, appVersion, now, timers, requests, downloads,
                last, input, out, db, cb>>

\* Linkbots.scan(): return baroboBridge.scan()
scan ==
    /\ page.scans < MaxScans
    /\ page' = [page EXCEPT !.method = "scan", !.scans = @ + 1]
    /\ PageOnly

\* Linkbots.startOpen(value)
startOpen ==
    /\ \E value \in BOOLEAN :
          page' = [page EXCEPT !.method = "startOpen", !.startOpen = value]
    /\ PageOnly

\* Linkbots.openSideMenu()
openSideMenu ==
    /\ page' = [page EXCEPT !.method = "openSideMenu", !.triggered = "show-menu"]
    /\ PageOnly

\* Linkbots.closeSideMenu()
closeSideMenu ==
    /\ page' = [page EXCEPT !.method = "closeSideMenu", !.triggered = "hide-menu"]
    /\ PageOnly

\* the methods that call the function of the same name in manager.jsx
callManager ==
    /\ \E m \in ManagerMethods :
          page' = [page EXCEPT !.method = m, !.manager = m]
    /\ PageOnly

\* Linkbots.setPathways(pathways); the bridge may not take the new configuration
setPathways ==
    /\ \E pathways \in PathwayArguments, ok \in BOOLEAN :
          LET written == Configuration(TRUE, TRUE,
                             IF pathways.isArray THEN pathways.value
                             ELSE <<Head(pathways.value)>>)
              stored == IF ok THEN written ELSE page.configuration
          IN  page' = [page EXCEPT
                          !.method = "setPathways",
                          !.configuration = stored,
                          !.triggered = IF stored # written THEN "add-error" ELSE @]
    /\ PageOnly

\* Linkbots.getPathways()
callGetPathways ==
    /\ page' = [page EXCEPT !.method = "getPathways",
                            !.returned = getPathways(page.configuration)]
    /\ PageOnly

\* the window's load event: the UI is added, the menu shown if startOpen is set
windowOnload ==
    /\ ~page.loaded
    /\ page' = [page EXCEPT !.loaded = TRUE,
                            !.triggered = IF page.startOpen THEN "show-menu" ELSE @]
    /\ PageOnly

NextLinkbots ==
    \/ scan
    \/ startOpen
    \/ openSideMenu
    \/ closeSideMenu
    \/ callManager
    \/ setPathways
    \/ callGetPathways
    \/ windowOnload

SpecLinkbots == InitLinkbots /\ [][NextLinkbots]_vars

----------------------------------------------------------------------------
(* storage.jsx: the robot store *)

\* robot names and statuses the callers pass; no operation reads the status
RobotNames == {"a", "b", "c"}
RobotStatuses == {0}

\* the positions the callers pass: the table never has more rows than names
Positions == 0..(Cardinality(RobotNames) - 1)

\* rows inserted by earlier page loads (the AUTOINCREMENT id counts them)
InitialSeq == Cardinality(RobotNames)

\* most rows inserted after the page has loaded
MaxAdds == 1

\* a row of the robots table
Row(id, name, status, rorder) ==
    [id |-> id, name |-> name, status |-> status, rorder |-> rorder]

\* the orders in which SELECT .. ORDER BY rorder may return the rows S:
\* rows with equal rorder come in any order
OrderedBy(S) ==
    {s \in [1..Cardinality(S) -> S] :
        \A i, j \in 1..Cardinality(S) :
            i < j => (s[i] # s[j] /\ s[i].rorder <= s[j].rorder)}

\* one invocation of the caller's callback: callback(true ..), callback(false ..),
\* or callback(allRobots) with the rows handed over
Invocation(ok, rows) == [ok |-> ok, rows |-> rows]

\* a call without a callback invokes nothing
Calls(hasCallback, invocations) == IF hasCallback THEN invocations ELSE <<>>

\* what a store operation leaves: the table, the callback invocations, and
\* the exception a statement callback threw
Outcome(d, rows, seq, callbacks, threw) ==
    [db |-> [d EXCEPT !.rows = rows, !.seq = seq],
     callbacks |-> callbacks, threw |-> threw, failed |-> FALSE]

\* the outcome of an operation one of whose statements ended in an SQL error
Failed(outcome) == [outcome EXCEPT !.failed = TRUE]

\* the stubs exported when openDatabase threw: a console.log and nothing else
notAvailable(d) == Outcome(d, d.rows, d.seq, <<>>, "")

\* remove(name, callback)
remove(d, name, hasCallback, fails) ==
    IF fails
    THEN Failed(Outcome(d, d.rows, d.seq,
                        Calls(hasCallback, <<Invocation(FALSE, <<>>)>>), ""))
    ELSE Outcome(d, {r \in d.rows : r.name # name}, d.seq,
                 Calls(hasCallback, <<Invocation(TRUE, <<>>)>>), "")

\* add(name, status, callback): rorder is COUNT(*); name is unique
add(d, name, status, hasCallback, failsSelect, failsInsert) ==
    LET c == Cardinality(d.rows)
        taken == \E r \in d.rows : r.name = name
    IN  IF failsSelect \/ failsInsert \/ taken
        THEN Failed(Outcome(d, d.rows, d.seq,
                            Calls(hasCallback, <<Invocation(FALSE, <<>>)>>), ""))
        ELSE Outcome(d, d.rows \cup {Row(d.seq + 1, name, status, c)}, d.seq + 1,
                     Calls(hasCallback, <<Invocation(TRUE, <<>>)>>), "")

\* getAll(callback): order is the row order the SELECT returned
getAll(d, order, hasCallback, fails) ==
    IF fails
    THEN Failed(Outcome(d, d.rows, d.seq,
                        Calls(hasCallback, <<Invocation(FALSE, <<>>)>>), ""))
    ELSE Outcome(d, d.rows, d.seq, Calls(hasCallback, <<Invocation(TRUE, order)>>), "")

\* 0-based index of row r in the sequence order
IndexIn(order, r) == (CHOOSE i \in 1..Len(order) : order[i] = r) - 1

\* updateOrder(callback): callback(true) follows the loop that issues the
\* UPDATEs; both error callbacks read the undeclared `results`, which throws
\* a ReferenceError when a callback is given, and the transaction rolls back
updateOrder(d, order, hasCallback, failsSelect, failId) ==
    LET renumbered(r) == [r EXCEPT !.rorder = IndexIn(order, r)]
        failing == {r \in d.rows : r.id = failId}
    IN  IF failsSelect
        THEN Failed(Outcome(d, d.rows, d.seq, <<>>,
                            IF hasCallback THEN "ReferenceError" ELSE ""))
        ELSE IF failing = {}
        THEN Outcome(d, {renumbered(r) : r \in d.rows}, d.seq,
                     Calls(hasCallback, <<Invocation(TRUE, <<>>)>>), "")
        ELSE IF hasCallback
        THEN Failed(Outcome(d, d.rows, d.seq, <<Invocation(TRUE, <<>>)>>,
                            "ReferenceError"))
        ELSE Failed(Outcome(d, {renumbered(r) : r \in d.rows \ failing} \cup failing,
                            d.seq, <<>>, ""))

\* faulty variant: the rows in between are shifted the wrong way
changePositionShiftsTheWrongWay(d, currentPosition, newPosition, order, hasCallback, failsSelect, failId) ==
    LET modifier == IF currentPosition > newPosition THEN -1 ELSE 1
        selected == {order[i] : i \in 1..Len(order)}
        setorder(r) == [r EXCEPT !.rorder = IF r.rorder = currentPosition
                                            THEN newPosition
                                            ELSE r.rorder + modifier]
        failing == {r \in selected : r.id = failId}
        issued == <<Invocation(TRUE, <<>>)>>
        succeeded(n) == [i \in 1..n |-> Invocation(TRUE, <<>>)]
    IN  IF currentPosition = newPosition
        THEN Outcome(d, d.rows, d.seq, <<>>, "")
        ELSE IF failsSelect
        THEN Failed(Outcome(d, d.rows, d.seq,
                            Calls(hasCallback, <<Invocation(FALSE, <<>>)>>), ""))
        ELSE IF failing = {}
        THEN Outcome(d, (d.rows \ selected) \cup {setorder(r) : r \in selected},
                     d.seq,
                     Calls(hasCallback, issued \o succeeded(Len(order))), "")
        ELSE IF hasCallback
        THEN Failed(Outcome(d, d.rows, d.seq,
                            issued \o succeeded(IndexIn(order, CHOOSE r \in failing : TRUE)),
                            "ReferenceError"))
        ELSE Failed(Outcome(d, (d.rows \ selected)
                                   \cup {setorder(r) : r \in selected \ failing}
                                   \cup failing,
                            d.seq, <<>>, ""))

\* changePosition(currentPosition, newPosition, callback): order is the row
\* order the SELECT .. BETWEEN returned; callback(true) follows the loop that
\* issues the UPDATEs, and each UPDATE that succeeds calls callback(true, results)
changePosition(d, currentPosition, newPosition, order, hasCallback, failsSelect, failId) ==
    LET modifier == IF currentPosition > newPosition THEN 1 ELSE -1
        selected == {order[i] : i \in 1..Len(order)}
        setorder(r) == [r EXCEPT !.rorder = IF r.rorder = currentPosition
                                            THEN newPosition
                                            ELSE r.rorder + modifier]
        failing == {r \in selected : r.id = failId}
        issued == <<Invocation(TRUE, <<>>)>>
        succeeded(n) == [i \in 1..n |-> Invocation(TRUE, <<>>)]
    IN  IF currentPosition = newPosition
        THEN Outcome(d, d.rows, d.seq, <<>>, "")
        ELSE IF failsSelect
        THEN Failed(Outcome(d, d.rows, d.seq,
                            Calls(hasCallback, <<Invocation(FALSE, <<>>)>>), ""))
        ELSE IF failing = {}
        THEN Outcome(d, (d.rows \ selected) \cup {setorder(r) : r \in selected},
                     d.seq,
                     Calls(hasCallback, issued \o succeeded(Len(order))), "")
        ELSE IF hasCallback
        THEN Failed(Outcome(d, d.rows, d.seq,
                            issued \o succeeded(IndexIn(order, CHOOSE r \in failing : TRUE)),
                            "ReferenceError"))
        ELSE Failed(Outcome(d, (d.rows \ selected)
                                   \cup {setorder(r) : r \in selected \ failing}
                                   \cup failing,
                            d.seq, <<>>, ""))

\* the rows SELECT .. WHERE rorder BETWEEN start AND end finds
Between(rows, currentPosition, newPosition) ==
    LET start == IF currentPosition > newPosition THEN newPosition ELSE currentPosition
        end == IF currentPosition > newPosition THEN currentPosition ELSE newPosition
    IN  {r \in rows : r.rorder >= start /\ r.rorder <= end}

\* no store operation has been called
NoStoreCall ==
    [op |-> "none", hasCallback |-> FALSE, args |-> <<>>,
     callbacks |-> <<>>, threw |-> "", failed |-> FALSE]

\* the tables earlier page loads may have left: every robot removed again, or
\* a, b and c in this order
InitialTables ==
    {{}, {Row(1, "a", 0, 0), Row(2, "b", 0, 1), Row(3, "c", 0, 2)}}

\* the state after storage.jsx has run: the database opened, or did not
InitStore ==
    /\ \E open \in BOOLEAN, rows \in InitialTables :
          db = [open |-> open, rows |-> rows, seq |-> InitialSeq]
    /\ cb = NoStoreCall
    /\ page = Unused
    /\ files = <<>>
    /\ config = <<>>
    /\ input = <<>>
    /\ out = NoCall
    /\ appVersion = NoVersion
    /\ now = 0
    /\ timers = <<>>
    /\ requests = 0
    /\ downloads = <<>>
    /\ last = NoHandler

StoreOnly ==
    UNCHANGED <<files, config, appVersion, now, timers, requests, downloads,
                last, input, out, page>>

\* the callback log an operation leaves
StoreCall(op, hasCallback, args, outcome) ==
    [op |-> op, hasCallback |-> hasCallback, args |-> args,
     callbacks |-> outcome.callbacks, threw |-> outcome.threw,
     failed |-> outcome.failed]

CallRemove ==
    /\ \E name \in RobotNames, hasCallback, fails \in BOOLEAN :
          LET outcome == IF db.open THEN remove(db, name, hasCallback, fails)
                         ELSE notAvailable(db)
          IN  /\ db' = outcome.db
              /\ cb' = StoreCall("remove", hasCallback, <<>>, outcome)
    /\ StoreOnly

CallAdd ==
    /\ db.seq < InitialSeq + MaxAdds
    /\ \E name \in RobotNames, status \in RobotStatuses,
          hasCallback, failsSelect, failsInsert \in BOOLEAN :
          LET outcome == IF db.open
                         THEN add(db, name, status, hasCallback, failsSelect, failsInsert)
                         ELSE notAvailable(db)
          IN  /\ db' = outcome.db
              /\ cb' = StoreCall("add", hasCallback, <<>>, outcome)
    /\ StoreOnly

CallGetAll ==
    /\ \E order \in OrderedBy(db.rows), hasCallback, fails \in BOOLEAN :
          LET outcome == IF db.open THEN getAll(db, order, hasCallback, fails)
                         ELSE notAvailable(db)
          IN  /\ db' = outcome.db
              /\ cb' = StoreCall("getAll", hasCallback, <<>>, outcome)
    /\ StoreOnly

\* failId is the id of the row whose UPDATE fails (0: none does)
CallUpdateOrder ==
    /\ \E order \in OrderedBy(db.rows), hasCallback, failsSelect \in BOOLEAN :
       \E failId \in IF failsSelect THEN {0} ELSE {0} \cup {r.id : r \in db.rows} :
          LET outcome == IF db.open
                         THEN updateOrder(db, order, hasCallback, failsSelect, failId)
                         ELSE notAvailable(db)
          IN  /\ db' = outcome.db
              /\ cb' = StoreCall("updateOrder", hasCallback, <<>>, outcome)
    /\ StoreOnly

CallChangePosition ==
    /\ \E currentPosition, newPosition \in Positions :
          \E order \in OrderedBy(Between(db.rows, currentPosition, newPosition)),
             hasCallback, failsSelect \in BOOLEAN :
           \E failId \in IF failsSelect THEN {0}
                          ELSE {0} \cup {order[i].id : i \in 1..Len(order)} :
              LET outcome == IF db.open
                             THEN changePosition(db, currentPosition, newPosition,
                                                 order, hasCallback, failsSelect, failId)
                             ELSE notAvailable(db)
              IN  /\ db' = outcome.db
                  /\ cb' = StoreCall("changePosition", hasCallback,
                                     <<currentPosition, newPosition>>, outcome)
    /\ StoreOnly

NextStore ==
    \/ CallRemove
    \/ CallAdd
    \/ CallGetAll
    \/ CallUpdateOrder
    \/ CallChangePosition

SpecStore == InitStore /\ [][NextStore]_vars

----------------------------------------------------------------------------
(* What the claims speak about *)

Range(seq) == {seq[i] : i \in 1..Len(seq)}

\* the stems that have a file split as (s, '.hex') and one split as (s, '.eeprom')
CompleteStems(listing) ==
    {s \in {splitFilename(f).stem : f \in Range(listing)} :
        /\ \E f \in Range(listing) :
              splitFilename(f) = [stem |-> s, extension |-> DotHex]
        /\ \E f \in Range(listing) :
              splitFilename(f) = [stem |-> s, extension |-> DotEeprom]}

\* the versions that have a complete pair in the listing
CompleteVersions(listing) ==
    {fromString(dropV(s)) : s \in CompleteStems(listing)} \ {NoVersion}

MaxVersion(S) == CHOOSE v \in S : \A w \in S : VersionLeq(w, v)

PersistedRemote == fromString(configGet(config, "latestRemoteFirmwareVersion"))

HasFile(name) == \E i \in 1..Len(files) : files[i] = name

\* the response of the last load event, read as the metadata document
LoadedKey == VersionToString(appVersion)
LoadedBody == last.response.body
HasEntry ==
    /\ LoadedBody.valid
    /\ appVersion # NoVersion
    /\ LoadedKey \in DOMAIN LoadedBody.firmware
HasChecksums ==
    /\ HasEntry
    /\ LoadedBody.firmware[LoadedKey][1] \in DOMAIN LoadedBody.md5sums

\* firmwareArray[0] of the last load event
Recommended == LoadedBody.firmware[LoadedKey][1]

\* the step is a load event with status OK that found the running version's
\* firmware array and the checksums of its first entry
SuccessfulCheck ==
    /\ requests' = requests - 1
    /\ last'.op = "load"
    /\ last'.response.status = 200
    /\ HasChecksums'

\* the versions parsed from the stems the pairing step returns that begin
\* with one of the prefixes, the prefix taken off, in the order of the stems
VersionsOfPrefixed(prefixes, listing) ==
    LET stems == SelectSeq(firmwareFileStems(listing),
                           LAMBDA s : Len(s) > 0 /\ Head(s) \in prefixes)
        parsed == [i \in 1..Len(stems) |-> fromString(Tail(stems[i]))]
    IN  SelectSeq(parsed, LAMBDA v : v # NoVersion)

\* exactly three dot-separated non-negative integers
IsVersionString(t) ==
    LET parts == split(t, ".")
    IN  Len(parts) = 3 /\ \A i \in 1..3 : IsDigits(parts[i])

\* the complete stems that are 'v' followed by a version string
WellFormedStems(listing) ==
    {s \in CompleteStems(listing) :
        Len(s) > 0 /\ Head(s) = "v" /\ IsVersionString(Tail(s))}

\* the extension a download URL ends with, and the version between
\* '/firmware/v' and that extension
UrlExtension(url) ==
    IF SubSeq(url, Len(url) - Len(DotHex) + 1, Len(url)) = DotHex
    THEN DotHex ELSE DotEeprom
UrlVersion(url) == SubSeq(url, 5, Len(url) - Len(UrlExtension(url)))

\* every saveFirmwareFile of the last load carries the checksum the document
\* lists for the URL's version and half; the .hex request comes first
SavedWithListedSums ==
    /\ \A i \in 1..Len(last.saved) :
          LET url == last.saved[i].url
              sums == LoadedBody.md5sums
          IN  /\ url = FirmwareUrl(UrlVersion(url), UrlExtension(url))
              /\ UrlVersion(url) \in DOMAIN sums
              /\ last.saved[i].md5sum = IF UrlExtension(url) = DotHex
                                        THEN sums[UrlVersion(url)].hex
                                        ELSE sums[UrlVersion(url)].eeprom
    /\ Len(last.saved) = 2
    /\ UrlExtension(last.saved[1].url) = DotHex
    /\ UrlExtension(last.saved[2].url) = DotEeprom
    /\ UrlVersion(last.saved[1].url) = UrlVersion(last.saved[2].url)

\* the store holds a nextCheck that is at most 60000 ms after t
PlannedWithin(cfg, t) ==
    /\ "nextCheck" \in DOMAIN cfg
    /\ cfg["nextCheck"] <= t + 60000

\* the step writes a new nextCheck into the store
WritesNextCheck ==
    /\ "nextCheck" \in DOMAIN config'
    /\ "nextCheck" \in DOMAIN config => config'["nextCheck"] # config["nextCheck"]

----------------------------------------------------------------------------
(* Claims *)

\* C1: latestVersion() returns the persisted remote version when it parses and
\* a complete local pair for exactly that version exists, and otherwise the
\* maximum of the complete local versions in (major, minor, patch) order.
C1_RemoteElseLocalMax ==
    (out.op = "latestVersion" /\ CompleteVersions(files) # {}) =>
        /\ ~out.threw
        /\ out.value = IF PersistedRemote \in CompleteVersions(files)
                       THEN PersistedRemote
                       ELSE MaxVersion(CompleteVersions(files))

\* C2: whenever latestVersion() returns a version, v<version>.hex and
\* v<version>.eeprom are both in the local file listing, in every state of the
\* update loop, also while a download of the persisted remote version is
\* under way.
C2_ReturnedVersionIsListed ==
    LET r == latestVersion(files, config)
    IN  (~r.threw /\ r.value # NoVersion) =>
            /\ HasFile(<<"v">> \o VersionToString(r.value) \o DotHex)
            /\ HasFile(<<"v">> \o VersionToString(r.value) \o DotEeprom)

\* C3: with no complete local version, latestVersion() returns undefined and
\* raises no error.
C3_NoLocalVersionIsUndefined ==
    (out.op = "latestVersion" /\ CompleteVersions(files) = {}) =>
        /\ ~out.threw
        /\ out.value = NoVersion

\* C4: firmwareFileStems returns exactly the stems that have both a .hex and
\* a .eeprom file in the list, whatever the names, order and repetitions.
C4_StemsAreTheCompleteOnes ==
    out.op = "firmwareFileStems" => Range(out.value) = CompleteStems(input)

\* C5: the update-check loop has no terminal state: a check is always armed
\* or in flight, so that (timers firing, requests finishing) another GET of
\* /firmware/metadata.json always follows.
C5_NoTerminalState == timers # <<>> \/ requests > 0

\* C6: after the request's error event exactly one check is armed, 10000 ms
\* ahead; no config key but nextCheck was written and no download requested.
C6_ErrorRetriesIn10s ==
    last.op = "error" =>
        /\ last.armed = <<10000>>
        /\ Len(timers) = 1
        /\ timers[1].delay = 10000
        /\ timers[1].armedAt <= now
        /\ \A i \in 1..Len(last.writes) : last.writes[i][1] = "nextCheck"
        /\ last.saved = <<>>
        /\ last.threw = ""

C6_Witness ==
    /\ last.op = "error"
    /\ timers = <<Timer(now, 10000)>>
    /\ now > StartNow
    /\ "latestRemoteFirmwareVersion" \in DOMAIN config
    /\ downloads # <<>>

\* C7: a load with a non-OK status, a body that is not JSON, or a document
\* without an entry (or a checksum entry) for the running application version
\* counts as a failure: a new check is armed 10000 ms ahead.
C7_FailedLoadRetriesIn10s ==
    (/\ last.op = "load"
     /\ \/ last.response.status # 200
        \/ ~LoadedBody.valid
        \/ appVersion # NoVersion /\ ~HasChecksums) =>
        /\ last.armed = <<10000>>
        /\ Len(timers) = 1
        /\ timers[1].delay = 10000

\* C8: after a successful check (status OK, valid metadata, a running version,
\* its firmware array and checksums in the document) exactly one check is
\* armed, 60000 ms ahead, whether or not downloads were requested and
\* whatever became of them.
C8_SuccessRearmsIn60s ==
    (last.op = "load" /\ last.response.status = 200 /\ HasChecksums) =>
        /\ last.armed = <<60000>>
        /\ Len(timers) = 1
        /\ timers[1].delay = 60000
        /\ last.threw = ""

C8_Witness ==
    /\ last.op = "load" /\ last.response.status = 200 /\ HasChecksums
    /\ Len(last.saved) = 2
    /\ downloads = <<>>
    /\ HasFile(SubSeq(last.saved[1].url, 4, Len(last.saved[1].url)))
    /\ ~HasFile(SubSeq(last.saved[2].url, 4, Len(last.saved[2].url)))
    /\ Len(timers) = 1 /\ timers[1].delay = 60000

\* C9: armed check timers plus metadata requests in flight are at most one.
C9_OneCheckAtATime == Len(timers) + requests <= 1

C9_Witness ==
    /\ last.op = "check"
    /\ requests = 1
    /\ timers = <<>>
    /\ now >= StartNow + 60000
    /\ "latestRemoteFirmwareVersion" \in DOMAIN config

\* C10: whenever a check timer is armed and the write of nextCheck that came
\* with it succeeded, the persisted nextCheck is that timer's firing time.
C10_NextCheckIsFiringTime ==
    (/\ timers # <<>>
     /\ \E i \in 1..Len(last.writes) : last.writes[i] = <<"nextCheck", TRUE>>) =>
        /\ "nextCheck" \in DOMAIN config
        /\ \A i \in 1..Len(timers) :
              config["nextCheck"] = timers[i].armedAt + timers[i].delay

C10_Witness ==
    /\ last.op = "load"
    /\ last.writes = <<<<"latestRemoteFirmwareVersion", FALSE>>, <<"nextCheck", TRUE>>>>
    /\ timers = <<Timer(now, 60000)>>
    /\ now > StartNow
    /\ config["nextCheck"] = now + 60000

\* C11: at module load the delay is clamp(nextCheck - now, 0, 60000), an
\* absent nextCheck counting as now: 0 for a nextCheck in the past, 60000 for
\* one more than 60000 ms ahead, never negative and never above 60000.
C11_InitialDelayIsClamped ==
    last.op = "init" =>
        LET t == timers[1].armedAt
            diff == IF "nextCheck" \in DOMAIN input THEN input["nextCheck"] - t ELSE 0
        IN  /\ Len(timers) = 1
            /\ last.armed = <<timers[1].delay>>
            /\ timers[1].delay >= 0
            /\ timers[1].delay <= 60000
            /\ diff < 0 => timers[1].delay = 0
            /\ diff > 60000 => timers[1].delay = 60000
            /\ (diff >= 0 /\ diff <= 60000) => timers[1].delay = diff

C11_Witness ==
    /\ last.op = "init"
    /\ "nextCheck" \in DOMAIN input
    /\ input["nextCheck"] - timers[1].armedAt > 60000
    /\ timers[1].armedAt > StartNow
    /\ timers[1].delay = 60000

\* C12: a process stopped in any phase of the loop (timer armed, request in
\* flight, nothing armed) and started again at time t has its first check due
\* no later than max(t, persisted nextCheck) and no later than t + 60000 ms.
C12_RestartResumesOnTime ==
    [][Len(input') > Len(input) =>
          LET t == now
              nextCheck == IF "nextCheck" \in DOMAIN config
                           THEN config["nextCheck"] ELSE t
              due == timers'[1].armedAt + timers'[1].delay
          IN  /\ Len(timers') = 1
              /\ requests' = 0
              /\ timers'[1].armedAt = t
              /\ due <= (IF nextCheck > t THEN nextCheck ELSE t)
              /\ due <= t + 60000]_vars

C12_Witness ==
    /\ input = <<"idle">>
    /\ last.op = "check"
    /\ requests = 1

\* C13: a successful check calls saveFirmwareFile exactly when the recommended
\* version has no complete local pair, and then exactly twice: for the .hex
\* URL and for the .eeprom URL of that version; never for a version that is
\* complete locally.
C13_DownloadsIffMissing ==
    [][SuccessfulCheck =>
          LET urls == [i \in 1..Len(last'.saved) |-> last'.saved[i].url]
          IN  IF fromString(Recommended') \in CompleteVersions(files)
              THEN urls = <<>>
              ELSE urls = <<FirmwareUrl(Recommended', DotHex),
                            FirmwareUrl(Recommended', DotEeprom)>>]_vars

\* C14: after every successful check the persisted latestRemoteFirmwareVersion
\* is the first entry of the array keyed by the running version; a failed
\* check (error event, or a load that is not a successful check) leaves the
\* persisted latestRemoteFirmwareVersion as it was.
C14_RemoteVersionPersisted ==
    [][requests' = requests - 1 =>
          IF SuccessfulCheck
          THEN configGet(config', "latestRemoteFirmwareVersion") = Recommended'
          ELSE configGet(config', "latestRemoteFirmwareVersion")
                   = configGet(config, "latestRemoteFirmwareVersion")]_vars

\* C15: a handler whose config.set returned false (for nextCheck or for
\* latestRemoteFirmwareVersion) still arms its timer with the delay it asked
\* for, 10000 ms after an error event and 60000 ms after a load that found the
\* array and its checksums, and such a load still decides on the downloads:
\* none when the recommended version exists locally, else the two files.
C15_FailedWriteKeepsLoop ==
    [][(/\ requests' = requests - 1
        /\ \E i \in 1..Len(last'.writes) : ~last'.writes[i][2]
        /\ last'.op = "load" => HasChecksums') =>
          /\ last'.threw = ""
          /\ timers' = Append(timers, Timer(now, IF last'.op = "error"
                                                 THEN 10000 ELSE 60000))
          /\ last'.op = "error" => downloads' = downloads
          /\ last'.op = "load" =>
                /\ downloads' = downloads \o last'.saved
                /\ Len(last'.saved) =
                       IF localVersionExists(files, newVersion(split(Recommended', ".")))
                       THEN 0 ELSE 2]_vars

C15_Witness ==
    /\ last.op = "load"
    /\ last.writes = <<<<"latestRemoteFirmwareVersion", FALSE>>, <<"nextCheck", FALSE>>>>
    /\ Len(last.saved) = 2
    /\ downloads = last.saved
    /\ timers = <<Timer(now, 60000)>>
    /\ "nextCheck" \in DOMAIN config => config["nextCheck"] < now

\* C16: when the bridge reports no running application version, the load
\* handler writes no config key, requests no download and arms no timer, and
\* from then on no timer is armed and no request is in flight: no further
\* check is issued by this process.
C16_NoVersionIsNoOp ==
    (last.op = "load" /\ appVersion = NoVersion) =>
        /\ last.writes = <<>>
        /\ last.saved = <<>>
        /\ last.armed = <<>>
        /\ timers = <<>>
        /\ requests = 0

C16_Witness ==
    /\ last.op = "load"
    /\ appVersion = NoVersion
    /\ last.response.status = 200
    /\ LoadedBody.valid
    /\ now = StartNow + MaxTicks * TickMs
    /\ "nextCheck" \in DOMAIN config
    /\ config["nextCheck"] + 60000 <= now

\* C17: splitFilename(f) has extension null and stem f exactly when f has no
\* '.' at an index greater than 0; otherwise the extension starts at the last
\* '.' and keeps it, and stem followed by extension is f.
C17_SplitAtLastDot ==
    out.op = "splitFilename" =>
        LET f == out.value[1]
            r == out.value[2]
            dots == {i \in 2..Len(f) : f[i] = "."}
        IN  IF dots = {}
            THEN r = [stem |-> f, extension |-> Null]
            ELSE /\ r.extension # Null
                 /\ r.stem \o r.extension = f
                 /\ Head(r.extension) = "."
                 /\ \A i \in 2..Len(r.extension) : r.extension[i] # "."

C17_Witness ==
    /\ out.op = "splitFilename"
    /\ out.value = <<<<"a", ".", "b", ".", "c">>,
                     [stem |-> <<"a", ".", "b">>, extension |-> <<".", "c">>]>>

\* C18: the local version list holds the versions of the stems returned by
\* the pairing step that begin with 'v' or with 'V', parsed without the
\* prefix; a stem with neither prefix contributes nothing.
C18_PrefixVOrUpperV ==
    out.op = "localVersionList" =>
        out.value = VersionsOfPrefixed({"v", "V"}, files)

\* C18, amended: the local version list holds the versions of the stems
\* returned by the pairing step that begin with a lowercase 'v', parsed
\* without the prefix; every other stem, one beginning with 'V' included,
\* contributes nothing.
C18_PrefixLowercaseV ==
    out.op = "localVersionList" =>
        out.value = VersionsOfPrefixed({"v"}, files)

C18_Witness ==
    /\ out.op = "localVersionList"
    /\ files = <<UpperV200 \o DotHex, V190 \o DotHex,
                 UpperV200 \o DotEeprom, V190 \o DotEeprom>>
    /\ out.value = <<Version(1, 9, 0)>>

\* C19: localVersionList raises nothing and returns exactly the versions of
\* the well-formed complete stems ('v' and three dot-separated non-negative
\* integers) of the listing: malformed and unprefixed stems are left out, the
\* well-formed ones are all there.
C19_ExactlyTheWellFormed ==
    out.op = "localVersionList" =>
        /\ ~out.threw
        /\ Range(out.value) =
               {newVersion(split(Tail(s), ".")) : s \in WellFormedStems(files)}

\* C20: with the persisted latestRemoteFirmwareVersion absent or not a
\* version string, latestVersion() raises nothing and returns the maximum of
\* the complete local versions (undefined when there is none).
C20_NoRemoteGivesLocalMax ==
    (out.op = "latestVersion" /\ PersistedRemote = NoVersion) =>
        /\ ~out.threw
        /\ out.value = IF CompleteVersions(files) = {} THEN NoVersion
                       ELSE MaxVersion(CompleteVersions(files))

\* C21: with at least one complete local version, startUpdater() calls
\* firmwareUpdate exactly once, with latestVersion() and the names
\* 'v<version>.hex' and 'v<version>.eeprom', and both names are in the local
\* listing.
C21_UpdaterFlashesListedFiles ==
    (out.op = "startUpdater" /\ CompleteVersions(files) # {}) =>
        /\ ~out.threw
        /\ Len(out.value) = 1
        /\ out.value[1].version = latestVersion(files, config).value
        /\ out.value[1].hexFile
               = <<"v">> \o VersionToString(out.value[1].version) \o DotHex
        /\ out.value[1].eepromFile
               = <<"v">> \o VersionToString(out.value[1].version) \o DotEeprom
        /\ HasFile(out.value[1].hexFile)
        /\ HasFile(out.value[1].eepromFile)

\* C22: each download request of a check carries the checksum the metadata
\* document lists for the same version and the same half, and the version in
\* both URLs is the latestRemoteFirmwareVersion persisted after that check.
C22_SumsAndPersistedVersion ==
    (last.op = "load" /\ last.saved # <<>>) =>
        /\ SavedWithListedSums
        /\ configGet(config, "latestRemoteFirmwareVersion")
               = UrlVersion(last.saved[1].url)

\* C22, amended: each download request of a check carries the checksum the
\* metadata document lists for the same version and the same half, and the
\* version in both URLs is the value that check handed to config.set for
\* latestRemoteFirmwareVersion: the persisted value whenever that write
\* succeeded.
C22_SumsAndWrittenVersion ==
    (last.op = "load" /\ last.saved # <<>>) =>
        /\ SavedWithListedSums
        /\ UrlVersion(last.saved[1].url) = Recommended
        /\ last.writes[1][1] = "latestRemoteFirmwareVersion"
        /\ last.writes[1][2] =>
               configGet(config, "latestRemoteFirmwareVersion")
                   = UrlVersion(last.saved[1].url)

C22_Witness ==
    /\ last.op = "load"
    /\ Len(last.saved) = 2
    /\ last.saved[1].md5sum = "md5 of v1.10.0.hex"
    /\ last.saved[2].md5sum = "md5 of v1.10.0.eeprom"
    /\ last.writes[1] = <<"latestRemoteFirmwareVersion", FALSE>>
    /\ configGet(config, "latestRemoteFirmwareVersion") = Tail(V190)

\* C23: the own properties of Linkbots are exactly 'scan' and 'connect', in
\* that order, and a call of Linkbots.scan() has called baroboBridge.scan().
C23_ScanAndConnectOnly ==
    /\ page.properties = <<"scan", "connect">>
    /\ page.method = "scan" => page.scans > 0

\* C24: the set of stems firmwareFileStems returns is the same for every
\* list with the same entries, whatever their order and however often they
\* are repeated.
C24_StemsIgnoreOrder ==
    out.op = "firmwareFileStems" =>
        \A other \in SeqsUpTo(StemFileNames, MaxStemFiles) :
            Range(other) = Range(input) =>
                Range(firmwareFileStems(other)) = Range(out.value)

\* C25: every delay armed is in [0, 60000] ms and every nextCheck written is
\* at most 60000 ms after the time of writing, so a store whose nextCheck is
\* at most 60000 ms ahead stays so as time goes on; a restart on such a store
\* is never cut short by the upper clamp: the first check is due at
\* max(now, nextCheck), and a restart before nextCheck leaves the same
\* nextCheck in the store.
C25_RestartKeepsPlannedWait ==
    [][/\ \A i \in 1..Len(timers') :
             timers'[i].delay >= 0 /\ timers'[i].delay <= 60000
       /\ WritesNextCheck =>
             config'["nextCheck"] >= now /\ config'["nextCheck"] <= now + 60000
       /\ PlannedWithin(config, now) => PlannedWithin(config', now')
       /\ (Len(input') > Len(input) /\ PlannedWithin(config, now)) =>
             /\ timers'[1].armedAt + timers'[1].delay
                    = (IF config["nextCheck"] > now THEN config["nextCheck"] ELSE now)
             /\ config["nextCheck"] >= now =>
                    config'["nextCheck"] = config["nextCheck"]]_vars

C25_Witness ==
    /\ Len(input) = 1
    /\ last.op = "init"
    /\ last.writes = <<<<"nextCheck", TRUE>>>>
    /\ timers = <<Timer(now, 50000)>>
    /\ config["nextCheck"] = now + 50000
    /\ "latestRemoteFirmwareVersion" \in DOMAIN config

\* C26: no file is requested from the bridge while an earlier request for the
\* same URL is still outstanding.
C26_NoDuplicateDownload ==
    \A i, j \in 1..Len(downloads) :
        downloads[i].url = downloads[j].url => i = j

\* C27: on the mock bridge every bridge method firmware.jsx calls is defined,
\* and a load with status OK and a metadata document is handled without an
\* exception and leaves a next check armed.
C27_MockBridgeKeepsLoop ==
    /\ FirmwareBridgeCalls \subseteq MockMethods
    /\ (last.op = "load" /\ last.response.status = 200 /\ LoadedBody.valid) =>
          /\ last.threw = ""
          /\ Len(timers) = 1

\* C28: the rorder values of the stored rows are pairwise distinct after any
\* sequence of store operations.
C28_RorderDistinct ==
    \A r, q \in db.rows : r.rorder = q.rorder => r = q

\* C29: when the n rows have the rorder values 0..n-1 and both positions are
\* below n, a changePosition none of whose statements fails leaves the rorder
\* values a permutation of 0..n-1: the moved row has rorder newPosition, the
\* other rows keep their relative order, and rows outside the range between
\* the two positions are unchanged.
C29_ChangePositionPermutes ==
    [][LET n == Cardinality(db.rows)
           currentPosition == cb'.args[1]
           newPosition == cb'.args[2]
           low == IF currentPosition < newPosition THEN currentPosition ELSE newPosition
           high == IF currentPosition < newPosition THEN newPosition ELSE currentPosition
           after(r) == CHOOSE q \in db'.rows : q.id = r.id
       IN  (/\ cb'.op = "changePosition"
            /\ db.open
            /\ ~cb'.failed
            /\ {r.rorder : r \in db.rows} = 0..(n - 1)
            /\ C28_RorderDistinct
            /\ currentPosition < n
            /\ newPosition < n) =>
              /\ {r.id : r \in db'.rows} = {r.id : r \in db.rows}
              /\ Cardinality(db'.rows) = n
              /\ {r.rorder : r \in db'.rows} = 0..(n - 1)
              /\ \A r \in db.rows :
                    /\ after(r) = [r EXCEPT !.rorder = after(r).rorder]
                    /\ r.rorder = currentPosition => after(r).rorder = newPosition
                    /\ (r.rorder < low \/ r.rorder > high) => after(r) = r
              /\ \A r, q \in db.rows :
                    (/\ r.rorder # currentPosition
                     /\ q.rorder # currentPosition
                     /\ r.rorder < q.rorder) => after(r).rorder < after(q).rorder]_vars

C29_Witness ==
    /\ cb.op = "changePosition"
    /\ cb.args = <<0, 2>>
    /\ ~cb.failed
    /\ db.open
    /\ db.rows = {Row(1, "a", 0, 2), Row(2, "b", 0, 0), Row(3, "c", 0, 1)}

\* C30: every store operation called with a callback invokes it exactly once,
\* on success and on SQL error alike, also changePosition with equal positions.
C30_CallbackExactlyOnce ==
    (cb.op # "none" /\ cb.hasCallback) =>
        /\ Len(cb.callbacks) = 1
        /\ cb.threw = ""

====
